---- MODULE Spec2Model ----
(***************************************************************************)
(* The upload-and-generate workflow of src/src/App.jsx: the six React      *)
(* state slots of the App component, its event handlers, and the steps of  *)
(* the asynchronous handleGenerate call (fetch, then response.text() or    *)
(* response.blob(), then catch / finally).                                 *)
(*                                                                         *)
(* JavaScript is run-to-completion: a handler, and each continuation of    *)
(* handleGenerate after an await, is one atomic action.  User events may   *)
(* arrive between any two of them.                                         *)
(***************************************************************************)
EXTENDS Naturals, Sequences, FiniteSets, TLC

VARIABLES
    uploadedImage,   \* useState(null): preview URL of the staged file
    uploadedFile,    \* useState(null): the staged File object
    generatedImage,  \* useState(null): URL of the generated image
    prompt,          \* useState(''):   the prompt text
    isLoading,       \* useState(false)
    error,           \* useState(null): the banner message
    urlCount,        \* object URLs created so far (none is ever revoked)
    inflight,        \* pending activations of handleGenerate, oldest first
    console,         \* what console.error has logged
    prev,            \* history: the React state before the last event
    last             \* history: the last event

vars == <<uploadedImage, uploadedFile, generatedImage, prompt, isLoading, error,
          urlCount, inflight, console, prev, last>>

(***************************************************************************)
(* Bounds of the model.                                                    *)
(***************************************************************************)
MaxUrls == 3        \* object URLs created in one run
MaxInFlight == 2    \* concurrent programmatic calls of handleGenerate

(***************************************************************************)
(* Values.  null is the empty tuple.  A string stored in a nullable slot  *)
(* (the error message) is held as [message |-> s], as is an Error object.  *)
(***************************************************************************)
NULL == <<>>

INVALID_FILE == [message |-> "Please upload a valid image file."]
NO_FILE == [message |-> "Please upload an image first!"]
GENERATE_FAILED ==
    [message |-> "Failed to generate image. Please ensure the backend is running and check the console."]

\* Candidate files a user can pick or drop: File objects with a media type.
CatPng == [name |-> "cat.png", type |-> "image/png"]
DogJpg == [name |-> "dog.jpg", type |-> "image/jpeg"]
NotesTxt == [name |-> "notes.txt", type |-> "text/plain"]
Untyped == [name |-> "image", type |-> ""]
Files == {CatPng, DogJpg, NotesTxt, Untyped}

\* A FileList, what e.dataTransfer.files or e.target.files holds: empty, one
\* file, or several (only the first of which the handlers read).
FileLists ==
    {<<>>} \cup {<<f>> : f \in Files} \cup {<<CatPng, NotesTxt>>, <<NotesTxt, DogJpg>>}

Prompts == {"", "ghibli style"}

\* What the backend may answer, a status and a body: an image of ten bytes, an
\* empty success, an error with a text.
Responses ==
    { [status |-> 200, body |-> "0123456789"],
      [status |-> 200, body |-> ""],
      [status |-> 500, body |-> "0123456789"] }

\* What a rejected fetch, text() or blob() promise throws.
TransportError == [message |-> "TypeError: Failed to fetch"]

(***************************************************************************)
(* Pure helpers.                                                           *)
(***************************************************************************)
\* String.prototype.startsWith
startsWith(s, p) == Len(s) >= Len(p) /\ SubSeq(s, 1, Len(p)) = p

\* The test of handleFileChange: file && file.type.startsWith('image/')
isImage(file) == file # NULL /\ startsWith(file.type, "image/")

\* files[0]: undefined (here null) on an empty list
first(files) == IF Len(files) > 0 THEN files[1] ELSE NULL

\* Response.ok
ok(response) == response.status \in 200..299

\* URL.createObjectURL: a fresh URL, resolving to obj, on every call
createObjectURL(obj) == [id |-> urlCount + 1, object |-> obj]

\* response.blob()
Blob(response) == [bytes |-> response.body]

\* new Error(`Network response was not ok. Status: ${...}. Message: ${...}`)
notOkError(response, errorText) ==
    [message |-> "Network response was not ok. Status: " \o ToString(response.status)
                 \o ". Message: " \o errorText]

\* The React state, as one record.
ui == [uploadedImage |-> uploadedImage, uploadedFile |-> uploadedFile,
       generatedImage |-> generatedImage, prompt |-> prompt,
       isLoading |-> isLoading, error |-> error, pending |-> Len(inflight)]

\* History: every event records the state it found and what it was.
Record(event) == prev' = ui /\ last' = event

\* Room for one more object URL, counting one per pending request.
UrlBudget == urlCount + Len(inflight) < MaxUrls

Remove(seq, i) == SubSeq(seq, 1, i - 1) \o SubSeq(seq, i + 1, Len(seq))

Init ==
    /\ uploadedImage = NULL
    /\ uploadedFile = NULL
    /\ generatedImage = NULL
    /\ prompt = ""
    /\ isLoading = FALSE
    /\ error = NULL
    /\ urlCount = 0
    /\ inflight = <<>>
    /\ console = {}
    /\ prev = [uploadedImage |-> NULL, uploadedFile |-> NULL, generatedImage |-> NULL,
               prompt |-> "", isLoading |-> FALSE, error |-> NULL, pending |-> 0]
    /\ last = [op |-> "mount"]

(***************************************************************************)
(* handleFileChange (App.jsx 23-36).                                       *)
(***************************************************************************)
\* acceptFile without line 30: an earlier error stays on the banner.
acceptFile_keepsError(file) ==
    /\ uploadedFile' = file
    /\ uploadedImage' = createObjectURL(file)
    /\ urlCount' = urlCount + 1
    /\ generatedImage' = NULL
    /\ UNCHANGED error

\* The accepting branch, lines 26-30.
acceptFile(file) ==
    /\ uploadedFile' = file
    /\ uploadedImage' = createObjectURL(file)
    /\ urlCount' = urlCount + 1
    /\ generatedImage' = NULL
    /\ error' = NULL

\* rejectFile without line 34: the earlier File stays staged.
rejectFile_keepsFile ==
    /\ error' = INVALID_FILE
    /\ uploadedImage' = NULL
    /\ UNCHANGED <<uploadedFile, generatedImage, urlCount>>

\* The rejecting branch, lines 32-34.
rejectFile ==
    /\ error' = INVALID_FILE
    /\ uploadedImage' = NULL
    /\ uploadedFile' = NULL
    /\ UNCHANGED <<generatedImage, urlCount>>

handleFileChange(file) ==
    /\ IF isImage(file) THEN acceptFile(file) ELSE rejectFile
    /\ UNCHANGED <<prompt, isLoading, inflight, console>>
    /\ Record([op |-> "handleFileChange", file |-> file])

\* onChange of the hidden file input (line 146).  The input is rendered only
\* while there is no preview (lines 133-151).
InputChange(files) ==
    /\ uploadedImage = NULL
    /\ isImage(first(files)) => UrlBudget
    /\ handleFileChange(first(files))

\* handleDrop (lines 43-49): an empty drop does nothing.
handleDrop(files) ==
    /\ isImage(first(files)) => UrlBudget
    /\ IF Len(files) > 0
       THEN handleFileChange(files[1])
       ELSE /\ UNCHANGED <<uploadedImage, uploadedFile, generatedImage, prompt,
                          isLoading, error, urlCount, inflight, console>>
            /\ Record([op |-> "handleDrop"])

\* handleDragOver (lines 39-41): preventDefault only.
handleDragOver ==
    /\ UNCHANGED <<uploadedImage, uploadedFile, generatedImage, prompt,
                   isLoading, error, urlCount, inflight, console>>
    /\ Record([op |-> "handleDragOver"])

\* onBrowseClick (lines 52-54): opens the file dialog; the button is rendered
\* only while there is no preview.
onBrowseClick ==
    /\ uploadedImage = NULL
    /\ UNCHANGED <<uploadedImage, uploadedFile, generatedImage, prompt,
                   isLoading, error, urlCount, inflight, console>>
    /\ Record([op |-> "onBrowseClick"])

\* onChange of the prompt textarea (line 157).
setPrompt(value) ==
    /\ prompt' = value
    /\ UNCHANGED <<uploadedImage, uploadedFile, generatedImage,
                   isLoading, error, urlCount, inflight, console>>
    /\ Record([op |-> "setPrompt", value |-> value])

\* onClose that resets the whole status, not the message alone.
onClose_resetsLoading ==
    /\ error # NULL
    /\ error' = NULL
    /\ isLoading' = FALSE
    /\ UNCHANGED <<uploadedImage, uploadedFile, generatedImage, prompt,
                   urlCount, inflight, console>>
    /\ Record([op |-> "onClose"])

\* onClose of the error banner (line 103), rendered only while error is set.
onClose ==
    /\ error # NULL
    /\ error' = NULL
    /\ UNCHANGED <<uploadedImage, uploadedFile, generatedImage, prompt,
                   isLoading, urlCount, inflight, console>>
    /\ Record([op |-> "onClose"])

(***************************************************************************)
(* handleGenerate (App.jsx 57-100).                                        *)
(***************************************************************************)
\* beginSubmit without line 64: the earlier result stays.
beginSubmit_keepsResult ==
    /\ isLoading' = TRUE
    /\ UNCHANGED generatedImage
    /\ error' = NULL

\* beginSubmit without line 65: the earlier error stays.
beginSubmit_keepsError ==
    /\ isLoading' = TRUE
    /\ generatedImage' = NULL
    /\ UNCHANGED error

\* Lines 63-65.
beginSubmit ==
    /\ isLoading' = TRUE
    /\ generatedImage' = NULL
    /\ error' = NULL

\* Lines 68-70.
FormData == [image |-> uploadedFile, prompt |-> prompt]

\* handleGenerate without the guard of lines 58-61.
handleGenerate_noGuard ==
    /\ beginSubmit
    /\ inflight' = Append(inflight, [pc |-> "fetch", formData |-> FormData])
    /\ UNCHANGED <<uploadedImage, uploadedFile, prompt, urlCount, console>>
    /\ Record([op |-> "handleGenerate"])

\* The synchronous part: the guard (58-61), then the state resets and the
\* fetch call (63-79), up to the first await.
handleGenerate ==
    /\ IF uploadedFile = NULL
       THEN /\ error' = NO_FILE
            /\ UNCHANGED <<isLoading, generatedImage, inflight>>
       ELSE /\ beginSubmit
            /\ inflight' = Append(inflight, [pc |-> "fetch", formData |-> FormData])
    /\ UNCHANGED <<uploadedImage, uploadedFile, prompt, urlCount, console>>
    /\ Record([op |-> "handleGenerate"])

\* The button disabled only while no file is staged.
CreateDisabled_ignoresLoading == uploadedFile = NULL

\* The disabled attribute of the Create button (line 116).
CreateDisabled == isLoading \/ uploadedFile = NULL

\* A click on the Create button.
CreateClick ==
    /\ ~CreateDisabled
    /\ UrlBudget
    /\ handleGenerate

\* handleGenerate called directly, not through the button.
CallGenerate ==
    /\ Len(inflight) < MaxInFlight
    /\ UrlBudget
    /\ handleGenerate

\* catch that shows the caught error itself.
catchBlock_showsDetail(e) ==
    /\ console' = console \cup {<<"Error generating image:", e>>}
    /\ error' = e

\* catch (lines 94-96).
catchBlock(e) ==
    /\ console' = console \cup {<<"Error generating image:", e>>}
    /\ error' = GENERATE_FAILED

\* finally (lines 97-99).
finallyBlock == isLoading' = FALSE

\* The loading flag reset at the end of the try block only, not in a finally.
fail_noFinally(i, e) ==
    /\ catchBlock(e)
    /\ UNCHANGED isLoading
    /\ inflight' = Remove(inflight, i)
    /\ UNCHANGED <<uploadedImage, uploadedFile, generatedImage, prompt, urlCount>>
    /\ Record([op |-> "settled", outcome |-> "failed",
               formData |-> inflight[i].formData, thrown |-> e])

\* An activation leaves through catch and finally.
fail(i, e) ==
    /\ catchBlock(e)
    /\ finallyBlock
    /\ inflight' = Remove(inflight, i)
    /\ UNCHANGED <<uploadedImage, uploadedFile, generatedImage,
                   prompt, urlCount>>
    /\ Record([op |-> "settled", outcome |-> "failed",
               formData |-> inflight[i].formData, thrown |-> e])

\* await fetch(...) resolves (line 76): on to response.text() or response.blob().
fetchResolved(i, response) ==
    /\ inflight[i].pc = "fetch"
    /\ inflight' = [inflight EXCEPT ![i] =
           [pc |-> IF ~ok(response) THEN "text" ELSE "blob",
            formData |-> inflight[i].formData, response |-> response]]
    /\ UNCHANGED <<uploadedImage, uploadedFile, generatedImage,
                   prompt, isLoading, error, urlCount, console>>
    /\ Record([op |-> "fetchResolved", response |-> response])

\* await fetch(...) rejects: a transport failure.
fetchRejected(i) ==
    /\ inflight[i].pc = "fetch"
    /\ fail(i, TransportError)

\* await response.text() resolves (line 84), and line 85 throws.
textResolved(i) ==
    /\ inflight[i].pc = "text"
    /\ fail(i, notOkError(inflight[i].response, inflight[i].response.body))

\* await response.text() rejects.
textRejected(i) ==
    /\ inflight[i].pc = "text"
    /\ fail(i, TransportError)

\* await response.blob() resolves (line 89); lines 92 and 98.
blobResolved(i) ==
    /\ inflight[i].pc = "blob"
    /\ generatedImage' = createObjectURL(Blob(inflight[i].response))
    /\ urlCount' = urlCount + 1
    /\ finallyBlock
    /\ inflight' = Remove(inflight, i)
    /\ UNCHANGED <<uploadedImage, uploadedFile, prompt, error, console>>
    /\ Record([op |-> "settled", outcome |-> "succeeded",
               formData |-> inflight[i].formData, response |-> inflight[i].response])

\* await response.blob() rejects.
blobRejected(i) ==
    /\ inflight[i].pc = "blob"
    /\ fail(i, TransportError)

\* One step of a pending request: the backend answers, or the transport fails.
Settle ==
    \E i \in 1..Len(inflight) :
        \/ \E response \in Responses : fetchResolved(i, response)
        \/ fetchRejected(i)
        \/ textResolved(i)
        \/ textRejected(i)
        \/ blobResolved(i)
        \/ blobRejected(i)

(***************************************************************************)
(* Specifications.                                                         *)
(***************************************************************************)
\* The events a user can cause through the rendered page.
UserEvent ==
    \/ \E files \in FileLists : InputChange(files)
    \/ \E files \in FileLists : handleDrop(files)
    \/ handleDragOver
    \/ onBrowseClick
    \/ \E value \in Prompts : setPrompt(value)
    \/ CreateClick
    \/ onClose

Next == UserEvent \/ Settle

Spec == Init /\ [][Next]_vars

\* The same page with handleGenerate also called programmatically.
NextCall == Next \/ CallGenerate

SpecCall == Init /\ [][NextCall]_vars

\* Every pending request is eventually answered or fails.
LiveSpec == Spec /\ WF_vars(Settle)

(***************************************************************************)
(* Properties.  prev is the React state the last event found, last the    *)
(* event, so "directly after handler H" reads last.op = H.                 *)
(***************************************************************************)
Submitted == last.op = "handleGenerate" /\ prev.uploadedFile # NULL
Succeeded == last.op = "settled" /\ last.outcome = "succeeded"
Failed == last.op = "settled" /\ last.outcome = "failed"
Accepted == last.op = "handleFileChange" /\ isImage(last.file)
Rejected == last.op = "handleFileChange" /\ ~isImage(last.file)

\* C1 (as stated): whenever isLoading is false, at most one of generatedImage
\* and error is non-empty.
C1_AtMostOneOfResultAndError ==
    ~isLoading => ~(generatedImage # NULL /\ error # NULL)

\* C1 (amended): whenever isLoading is false, generatedImage and error are both
\* non-empty only when error is the message of a rejected upload; the
\* request-failure message is never shown together with a result.
C1_ResultOnlyBesideUploadError ==
    (~isLoading /\ generatedImage # NULL /\ error # NULL) => error = INVALID_FILE

C1_Witness ==
    ~isLoading /\ generatedImage # NULL /\ error = INVALID_FILE /\ Rejected

\* C2: at most one generate request is in flight at any time, whatever the
\* user does.
C2_OneRequestInFlight == Len(inflight) <= 1

C2_Witness == Len(inflight) = 1 /\ isLoading /\ Accepted /\ prev.isLoading

\* C3 (as stated): a successful call goes Idle -> Submitting -> Succeeded,
\* generatedImage becomes the URL of the returned bytes, and error is empty in
\* every state from the start of the call until its completion.
C3_ErrorEmptyThroughout ==
    /\ Submitted => (isLoading /\ error = NULL)
    /\ Len(inflight) > 0 => (isLoading /\ error = NULL)
    /\ Succeeded => /\ prev.isLoading /\ ~isLoading
                    /\ generatedImage = [id |-> urlCount, object |-> [bytes |-> last.response.body]]
                    /\ error = NULL

\* C3 (amended): as stated, except that error is empty at the start of the
\* call and afterwards, until completion, is either empty or the message of an
\* upload rejected while the request was outstanding; the successful
\* completion leaves error as it found it.
C3_ErrorEmptyUnlessUploadRejected ==
    /\ Submitted => (isLoading /\ error = NULL)
    /\ Len(inflight) > 0 => (isLoading /\ error \in {NULL, INVALID_FILE})
    /\ Succeeded => /\ prev.isLoading /\ ~isLoading
                    /\ generatedImage = [id |-> urlCount, object |-> [bytes |-> last.response.body]]
                    /\ error = prev.error
                    /\ error \in {NULL, INVALID_FILE}

C3_Witness == Succeeded /\ error = INVALID_FILE /\ last.response.body # ""

\* C4: a failing call ends with isLoading false and error the fixed generic
\* message, not the thrown detail; generatedImage is empty from the start of
\* the call through its completion.
C4_FailureShowsGenericMessage ==
    /\ Submitted => (isLoading /\ generatedImage = NULL)
    /\ Len(inflight) > 0 => (isLoading /\ generatedImage = NULL)
    /\ Failed => /\ prev.isLoading /\ ~isLoading
                 /\ error = GENERATE_FAILED
                 /\ error # last.thrown
                 /\ prev.generatedImage = NULL /\ generatedImage = NULL

C4_Witness ==
    /\ Failed
    /\ last.thrown = [message |->
           "Network response was not ok. Status: 500. Message: 0123456789"]
    /\ <<"Error generating image:", last.thrown>> \in console

\* C5: handleGenerate with no file staged issues no request and sets error to
\* the validation message; isLoading, the staged image, the prompt and the
\* result are left as they were.
C5_NoFileNoRequest ==
    (last.op = "handleGenerate" /\ prev.uploadedFile = NULL) =>
        /\ error = NO_FILE
        /\ Len(inflight) = prev.pending
        /\ isLoading = prev.isLoading
        /\ uploadedFile = NULL
        /\ uploadedImage = prev.uploadedImage
        /\ prompt = prev.prompt
        /\ generatedImage = prev.generatedImage

C5_Witness ==
    /\ last.op = "handleGenerate" /\ prev.uploadedFile = NULL
    /\ ~isLoading /\ generatedImage # NULL /\ prev.error = INVALID_FILE

\* C6: a candidate that is absent or has no image media type sets error to
\* "Please upload a valid image file." and leaves nothing staged.
C6_RejectionClearsStagedImage ==
    Rejected => (error = INVALID_FILE /\ uploadedImage = NULL /\ uploadedFile = NULL)

C6_Witness ==
    /\ Rejected /\ last.file = NotesTxt
    /\ prev.uploadedFile # NULL /\ prev.uploadedImage # NULL /\ prev.isLoading

\* C7: a candidate with an image media type is staged, file and a new preview
\* URL of it, and directly afterwards generatedImage and error are empty.
C7_AcceptanceStagesAndClears ==
    Accepted =>
        /\ uploadedFile = last.file
        /\ uploadedImage = [id |-> urlCount, object |-> last.file]
        /\ uploadedImage # prev.uploadedImage
        /\ generatedImage = NULL
        /\ error = NULL

C7_Witness ==
    /\ Accepted
    /\ prev.error # NULL
    /\ prev.uploadedFile # NULL /\ prev.uploadedFile # last.file

\* C8: dismissing the banner empties error and changes nothing else.
C8_DismissClearsOnlyError ==
    last.op = "onClose" =>
        /\ prev.error # NULL /\ error = NULL
        /\ isLoading = prev.isLoading
        /\ Len(inflight) = prev.pending
        /\ uploadedFile = prev.uploadedFile
        /\ uploadedImage = prev.uploadedImage
        /\ prompt = prev.prompt
        /\ generatedImage = prev.generatedImage

C8_Witness == last.op = "onClose" /\ isLoading /\ Len(inflight) = 1

\* C9: once every request is answered or fails, a workflow that is Submitting
\* eventually is not, and no completed request leaves isLoading set.
C9_SubmittingEnds ==
    /\ isLoading ~> ~isLoading
    /\ [](last.op = "settled" => ~isLoading)

C9_Witness == Failed /\ last.thrown = TransportError /\ ~isLoading /\ prev.isLoading

\* C10: a result that appears is the answer to a request made for the file
\* that is staged when it appears.
C10_ResultIsForStagedFile ==
    Succeeded => (generatedImage # NULL /\ last.formData.image = uploadedFile)

====
